---- MODULE Spec2Model ----
(***************************************************************************)
(* Model of src/src/libstd/sys/unix/fs_linux.rs: the sparse-file aware     *)
(* copy() of libstd for Linux, with its helpers lseek, allocate_file,      *)
(* copy_bytes_kernel, copy_bytes_uspace, copy_bytes, copy_range,           *)
(* next_sparse_segments, copy_sparse and copy_parms.                       *)
(*                                                                         *)
(* Offsets and lengths are in bytes.  A file is a record                   *)
(*   kind   : "file", "dir" or "missing" (what the path names)             *)
(*   size   : the logical length (st_size)                                 *)
(*   data   : the sequence of the bytes read at offsets 0..size-1          *)
(*            (a hole reads as 0)                                          *)
(*   alloc  : the set of the indices of the allocated filesystem blocks    *)
(*   mode   : the permission bits                                          *)
(*   dev    : the device identifier (st_dev)                               *)
(* The target is a 64-bit Linux, where the casts u64 <-> usize <-> i64 of  *)
(* the source lose nothing on file offsets.  Sizes are scaled down: the    *)
(* filesystem block is StBlksize bytes and the copy buffer BLKSIZE bytes.  *)
(***************************************************************************)
EXTENDS Integers, Sequences, FiniteSets, TLC

\* ------------------------------------------------------------------ bounds
MaxLen == 6          \* longest source file, in bytes
MaxCopies == 2       \* invocations of copy / copy_range in one behaviour
MaxIntr == 1         \* reads interrupted by a signal during one invocation
WalkBlocks == 5      \* blocks of the long sources of the sparse walk

\* ------------------------------------------------ constants of the program
BLKSIZE == 2         \* the buffer of copy_bytes_uspace (4 KiB, scaled down)
StBlksize == 2       \* st_blksize: the filesystem block (4 KiB, scaled down)
StSector == 1        \* the unit of st_blocks (512 bytes, scaled down)

Threads == {"t1", "t2"}
DevA == "devA"
DevB == "devB"
Devs == {DevA, DevB}
SrcMode == "0600"    \* the permission bits of the source
NewMode == "0644"    \* the permission bits File::create gives a new file
OldMode == "0666"    \* the permission bits of a destination that pre-exists

ENOSYS == "ENOSYS"
EPERM == "EPERM"
EIO == "EIO"
ENXIO == "ENXIO"
InvalidInput == "InvalidInput"
InvalidData == "InvalidData"
Interrupted == "Interrupted"

Min(a, b) == IF a < b THEN a ELSE b

Ok(v) == [ok |-> TRUE, val |-> v, err |-> "none"]
Err(e) == [ok |-> FALSE, val |-> 0, err |-> e]
NoResult == [ok |-> FALSE, val |-> 0, err |-> "pending"]

\* ------------------------------------------------------------------- files
BlockOf(off) == off \div StBlksize
NBlocks(size) == (size + StBlksize - 1) \div StBlksize
IsData(f, off) == BlockOf(off) \in f.alloc
HoleOffsets(f) == {o \in 0..(f.size - 1) : ~IsData(f, o)}
HasHoles(f) == HoleOffsets(f) # {}

\* The byte a source holds at a data offset: never 0, and different at
\* neighbouring offsets, so that a transfer to a wrong offset shows.
Pattern(off) == 1 + (off % 3)

SourceFile(size, alloc) ==
    [kind |-> "file", size |-> size,
     data |-> [i \in 1..size |-> IF BlockOf(i - 1) \in alloc THEN Pattern(i - 1) ELSE 0],
     alloc |-> alloc, mode |-> SrcMode, dev |-> DevA]

NotAFile(kind) ==
    [kind |-> kind, size |-> 0, data |-> <<>>, alloc |-> {}, mode |-> SrcMode, dev |-> DevA]

Sources ==
    {SourceFile(n, a) : n \in 0..MaxLen, a \in SUBSET (0..(NBlocks(MaxLen) - 1))}

ValidSources == {f \in Sources : f.alloc \subseteq 0..(NBlocks(f.size) - 1)}

MissingDst(dev) ==
    [kind |-> "missing", size |-> 0, data |-> <<>>, alloc |-> {}, mode |-> NewMode, dev |-> dev]

\* A destination that exists before the copy: one block of old content.
OldDst(dev) ==
    [kind |-> "file", size |-> StBlksize, data |-> [i \in 1..StBlksize |-> 9],
     alloc |-> {0}, mode |-> OldMode, dev |-> dev]

\* An all-hole destination that exists before a direct copy_range.
SparseDst(dev) ==
    [kind |-> "file", size |-> MaxLen, data |-> [i \in 1..MaxLen |-> 0],
     alloc |-> {}, mode |-> OldMode, dev |-> dev]

\* The paths a copy can be given as its destination: one that names no file,
\* on either device, and one that names an existing file.
FreshDsts == {MissingDst(d) : d \in Devs} \cup {OldDst(DevA)}

\* write(2) of the bytes bs at offset off: the file grows as needed (a gap
\* reads as 0) and every block touched becomes allocated.
WriteAt(f, off, bs) ==
    LET n == Len(bs)
        newsize == IF off + n > f.size THEN off + n ELSE f.size
    IN [f EXCEPT
          !.size = newsize,
          !.data = [i \in 1..newsize |->
                      IF i - 1 >= off /\ i - 1 < off + n THEN bs[i - off]
                      ELSE IF i <= f.size THEN f.data[i] ELSE 0],
          !.alloc = IF n = 0 THEN f.alloc
                    ELSE f.alloc \cup {BlockOf(o) : o \in off..(off + n - 1)}]

ReadAt(f, off, n) == [i \in 1..n |-> f.data[off + i]]

\* File::create: O_CREAT | O_TRUNC.
file_create_notrunc(f) ==
    IF f.kind = "missing" THEN [f EXCEPT !.kind = "file"] ELSE f

file_create(f) ==
    IF f.kind = "missing"
    THEN [f EXCEPT !.kind = "file", !.size = 0, !.data = <<>>, !.alloc = {}, !.mode = NewMode]
    ELSE [f EXCEPT !.size = 0, !.data = <<>>, !.alloc = {}]

\* ftruncate64(fd, n): sets the length, writes nothing.
allocate_file_noop(f, n) == f

allocate_file(f, n) ==
    [f EXCEPT
       !.size = n,
       !.data = [i \in 1..n |-> IF i <= f.size THEN f.data[i] ELSE 0],
       !.alloc = {b \in f.alloc : b < NBlocks(n)}]

\* ------------------------------------------------------------------ lseek
Offset(n) == [tag |-> "Offset", off |-> n]
EOF == [tag |-> "EOF", off |-> 0]

MinOf(S) == CHOOSE m \in S : \A x \in S : m <= x

\* lseek64(fd, off, SEEK_DATA): the first data offset at or after off;
\* ENXIO (no such offset, or off at or beyond the end) becomes EOF.
lseek_data(f, off) ==
    LET D == {o \in off..(f.size - 1) : IsData(f, o)}
    IN IF D = {} THEN EOF ELSE Offset(MinOf(D))

\* lseek64(fd, off, SEEK_HOLE): the first hole offset at or after off, the
\* end of the file counting as a hole; ENXIO when off is at or beyond the end.
lseek_hole(f, off) ==
    LET H == {o \in off..(f.size - 1) : ~IsData(f, o)}
    IN IF off >= f.size THEN EOF
       ELSE IF H = {} THEN Offset(f.size) ELSE Offset(MinOf(H))

seek_or_len_off(r, f) == r.off

seek_or_len(r, f) == IF r.tag = "Offset" THEN r.off ELSE f.size

next_sparse_segments_nodata(f, p) ==
    LET next_hole == seek_or_len(lseek_hole(f, p), f)
    IN <<p, next_hole>>

next_sparse_segments(f, p) ==
    LET next_data == seek_or_len(lseek_data(f, p), f)
        next_hole == seek_or_len(lseek_hole(f, next_data), f)
    IN <<next_data, next_hole>>

\* ------------------------------------------------------------- copy_parms
st_blocks(f) == Cardinality(f.alloc) * (StBlksize \div StSector)

is_sparse_never(f) == FALSE

is_sparse_of(f) == st_blocks(f) < f.size \div StBlksize

is_xmount_never(fin, fout) == FALSE

is_xmount_of(fin, fout) == fin.dev # fout.dev

\* -------------------------------------------------------------- copy_bytes
\* thread_local! HAS_COPY_FILE_RANGE = RefCell::new(true)
flag_init_false == FALSE

flag_init == TRUE

\* HAS_COPY_FILE_RANGE.with(|cfr| ..): the closure sees the value the thread
\* has kept since its last call.
cfr_with_fresh(flag) == TRUE

cfr_with(flag) == flag

\* *cfr.borrow_mut() = false: the flag of the calling thread, no other.
flag_down_global(c, t) == [u \in Threads |-> FALSE]

flag_down_noop(c, t) == c

flag_down(c, t) == [c EXCEPT ![t] = FALSE]

\* if uspace || !*cfr.borrow()
use_uspace_ignoring_xmount(usp, flag) == ~flag

use_uspace(usp, flag) == usp \/ ~flag

\* Some(libc::ENOSYS) | Some(libc::EPERM)
is_unsupported_never(e) == FALSE

is_unsupported_any(e) == TRUE

is_unsupported(e) == e \in {ENOSYS, EPERM}

\* let next = cmp::min(nbytes - written, BLKSIZE)
uspace_next_blk(n, w) == BLKSIZE

uspace_next(n, w) == Min(n - w, BLKSIZE)

\* written += len
uspace_written_next(w, l, nx) == w + nx

uspace_written(w, l, nx) == w + l

\* copy: let uspace = is_xmount
uspace_of_never(xmount) == FALSE

uspace_of(xmount) == xmount

\* copy: if !from.is_file()
is_file_always(f) == TRUE

is_file(f) == f.kind = "file"

\* copy_sparse: Ok(len)
copy_sparse_total(n) == n

\* ------------------------------------------------------------------ state
VARIABLES
    src,        \* the source file (never changed by the program)
    dst,        \* the destination file of the current invocation
    cfr,        \* HAS_COPY_FILE_RANGE of every thread
    thr,        \* the thread that runs the current invocation
    op,         \* "copy" or "range": the entry point of the invocation
    pc,         \* the position of the invocation in the code
    fdin,       \* the cursor of infd
    fdout,      \* the cursor of outfd
    is_sparse,  \* copy: is_sparse
    uspace,     \* copy: uspace (copy_range, copy_bytes: the parameter)
    total,      \* copy: total
    len,        \* copy_sparse: len
    pos,        \* copy_sparse: pos
    next_data,  \* copy_sparse: next_data
    next_hole,  \* copy_sparse: next_hole
    rlen,       \* copy_range: len
    written,    \* copy_range: written
    nbytes,     \* copy_bytes: nbytes
    result,     \* copy_range: result (the bytes one copy_bytes reported)
    uwritten,   \* copy_bytes_uspace: written
    next,       \* copy_bytes_uspace: next
    buf,        \* copy_bytes_uspace: buf[..len], the bytes of the last read
    res,        \* what the last finished invocation returned
    wr,         \* history: the destination offsets written by this invocation
    kTried,     \* history: this invocation called copy_file_range
    kMoved,     \* history: copy_file_range moved bytes in this invocation
    unsup,      \* history: the thread has seen ENOSYS or EPERM
    last,       \* history: the previous successful copy
    ncopies,    \* history: the invocations started
    intr        \* history: the reads interrupted during this invocation

files == <<src, dst>>
cursors == <<fdin, fdout>>
copyLocals == <<is_sparse, uspace, total>>
sparseLocals == <<len, pos, next_data, next_hole>>
rangeLocals == <<rlen, written>>
bytesLocals == <<nbytes, result>>
uspaceLocals == <<uwritten, next, buf>>
history == <<wr, kTried, kMoved, unsup, last, ncopies, intr>>
vars == <<files, cfr, thr, op, pc, cursors, copyLocals, sparseLocals, rangeLocals,
          bytesLocals, uspaceLocals, res, history>>

NoLast == [set |-> FALSE, data |-> <<>>, ret |-> 0, k |-> FALSE]

InitRest ==
    /\ dst = MissingDst(DevA)
    /\ cfr = [t \in Threads |-> flag_init]
    /\ thr = "t1"
    /\ op = "copy"
    /\ pc = "idle"
    /\ fdin = 0 /\ fdout = 0
    /\ is_sparse = FALSE /\ uspace = FALSE /\ total = 0
    /\ len = 0 /\ pos = 0 /\ next_data = 0 /\ next_hole = 0
    /\ rlen = 0 /\ written = 0
    /\ nbytes = 0 /\ result = 0
    /\ uwritten = 0 /\ next = 0 /\ buf = <<>>
    /\ res = NoResult
    /\ wr = {} /\ kTried = FALSE /\ kMoved = FALSE
    /\ unsup = [t \in Threads |-> FALSE]
    /\ last = NoLast
    /\ ncopies = 0 /\ intr = 0

Init ==
    /\ src \in ValidSources \cup {NotAFile("dir"), NotAFile("missing")}
    /\ InitRest

\* The locals of a frame that has returned hold nothing.
ClearUspace == uwritten' = 0 /\ next' = 0 /\ buf' = <<>>
ClearBytes == nbytes' = 0 /\ result' = 0
ClearRange == rlen' = 0 /\ written' = 0
ClearSparse == len' = 0 /\ pos' = 0 /\ next_data' = 0 /\ next_hole' = 0
ClearCopy == is_sparse' = FALSE /\ uspace' = FALSE /\ total' = 0

\* The invocation returns r to its caller: every frame is gone and both
\* files are closed.
Return(r) ==
    /\ pc' = "idle"
    /\ res' = r
    /\ fdin' = 0 /\ fdout' = 0
    /\ ClearUspace /\ ClearBytes /\ ClearRange /\ ClearSparse /\ ClearCopy

\* What the history keeps of the invocation that has just finished.
LastAfter ==
    IF op = "copy" /\ res.ok
    THEN [set |-> TRUE, data |-> dst.data, ret |-> res.val, k |-> kMoved]
    ELSE last

StartHistory ==
    /\ wr' = {} /\ kTried' = FALSE /\ kMoved' = FALSE /\ intr' = 0
    /\ last' = LastAfter
    /\ ncopies' = ncopies + 1
    /\ UNCHANGED unsup

\* ------------------------------------------------------------------- copy
\* A thread calls copy(from, to); to is the destination of the previous
\* invocation or another path.
copy_call(t, d) ==
    /\ pc = "idle"
    /\ ncopies < MaxCopies
    /\ thr' = t
    /\ op' = "copy"
    /\ dst' = d
    /\ pc' = "copy_is_file"
    /\ res' = NoResult
    /\ StartHistory
    /\ UNCHANGED <<src, cfr, cursors, copyLocals, sparseLocals, rangeLocals,
                   bytesLocals, uspaceLocals>>

\* if !from.is_file() { return Err(InvalidInput) }
copy_is_file ==
    /\ pc = "copy_is_file"
    /\ IF is_file(src)
       THEN /\ pc' = "copy_open"
            /\ UNCHANGED <<res, cursors, copyLocals, sparseLocals, rangeLocals,
                           bytesLocals, uspaceLocals>>
       ELSE Return(Err(InvalidInput))
    /\ UNCHANGED <<files, cfr, thr, op, history>>

\* let infd = File::open(from)?; let outfd = File::create(to)?;
copy_open ==
    /\ pc = "copy_open"
    /\ \/ /\ src.kind = "file"
          /\ dst' = file_create(dst)
          /\ pc' = "copy_parms"
          /\ UNCHANGED <<res, cursors, copyLocals, sparseLocals, rangeLocals,
                         bytesLocals, uspaceLocals>>
       \/ /\ src.kind = "missing"
          /\ Return(Err("ENOENT"))
          /\ UNCHANGED dst
       \/ /\ Return(Err(EIO))   \* open or create fails
          /\ UNCHANGED dst
    /\ UNCHANGED <<src, cfr, thr, op, history>>

\* let (is_sparse, is_xmount) = copy_parms(&infd, &outfd)?; let uspace = is_xmount;
copy_parms ==
    /\ pc = "copy_parms"
    /\ \/ /\ is_sparse' = is_sparse_of(src)
          /\ uspace' = uspace_of(is_xmount_of(src, dst))
          /\ pc' = "copy_total"
          /\ UNCHANGED <<res, cursors, total, sparseLocals, rangeLocals,
                         bytesLocals, uspaceLocals>>
       \/ Return(Err(EIO))      \* a metadata() fails
    /\ UNCHANGED <<files, cfr, thr, op, history>>

\* let total = if is_sparse { copy_sparse(..)? } else { copy_range(.., len)? }
\* with the head of copy_sparse: len and allocate_file(&outfd, len)?
copy_total ==
    /\ pc = "copy_total"
    /\ \/ /\ is_sparse
          /\ len' = src.size
          /\ dst' = allocate_file(dst, src.size)
          /\ pos' = 0
          /\ pc' = "sparse_loop"
          /\ UNCHANGED <<res, cursors, copyLocals, next_data, next_hole, rangeLocals,
                         bytesLocals, uspaceLocals>>
       \/ /\ ~is_sparse
          /\ rlen' = src.size
          /\ written' = 0
          /\ pc' = "range_loop"
          /\ UNCHANGED <<dst, res, cursors, copyLocals, sparseLocals,
                         bytesLocals, uspaceLocals>>
       \/ /\ Return(Err(EIO))   \* metadata() or ftruncate64 fails
          /\ UNCHANGED dst
    /\ UNCHANGED <<src, cfr, thr, op, history>>

\* outfd.set_permissions(infd.metadata()?.permissions())?; Ok(total)
\* outfd.set_permissions(infd.metadata()?.permissions())
set_permissions_skip(f, m) == f

set_permissions(f, m) == [f EXCEPT !.mode = m]

copy_perm ==
    /\ pc = "copy_perm"
    /\ \/ /\ dst' = set_permissions(dst, src.mode)
          /\ Return(Ok(total))
       \/ /\ Return(Err(EIO))
          /\ UNCHANGED dst
    /\ UNCHANGED <<src, cfr, thr, op, history>>

\* ------------------------------------------------------------ copy_sparse
\* while pos < len { next_sparse_segments; lseek(infd); lseek(outfd);
\*                   copy_range(infd, outfd, uspace, next_hole - next_data)? .. }
sparse_loop ==
    /\ pc = "sparse_loop"
    /\ \/ /\ pos < len
          /\ LET seg == next_sparse_segments(src, pos)
             IN /\ next_data' = seg[1]
                /\ next_hole' = seg[2]
                /\ fdin' = seg[1]
                /\ fdout' = seg[1]
                /\ rlen' = seg[2] - seg[1]
                /\ written' = 0
          /\ pc' = "range_loop"
          /\ UNCHANGED <<res, copyLocals, len, pos, bytesLocals, uspaceLocals>>
       \/ /\ pos < len
          /\ Return(Err(EIO))   \* an lseek64 fails with another error than ENXIO
       \/ /\ ~(pos < len)
          /\ total' = copy_sparse_total(len)
          /\ pc' = "copy_perm"
          /\ ClearSparse
          /\ UNCHANGED <<res, cursors, is_sparse, uspace, rangeLocals, bytesLocals,
                         uspaceLocals>>
    /\ UNCHANGED <<files, cfr, thr, op, history>>

\* pos = next_hole
sparse_next ==
    /\ pc = "sparse_next"
    /\ pos' = next_hole
    /\ pc' = "sparse_loop"
    /\ UNCHANGED <<files, cfr, thr, op, res, cursors, copyLocals, len, next_data,
                   next_hole, rangeLocals, bytesLocals, uspaceLocals, history>>

\* ------------------------------------------------------------- copy_range
\* A thread calls copy_range(&infd, &outfd, usp, n) on two files it has just
\* opened, the destination for writing without truncation.
range_call(t, d, usp, n) ==
    /\ pc = "idle"
    /\ ncopies < MaxCopies
    /\ src.kind = "file"
    /\ d.kind = "file"
    /\ thr' = t
    /\ op' = "range"
    /\ dst' = d
    /\ uspace' = usp
    /\ rlen' = n
    /\ written' = 0
    /\ pc' = "range_loop"
    /\ res' = NoResult
    /\ StartHistory
    /\ UNCHANGED <<src, cfr, cursors, is_sparse, total, sparseLocals, bytesLocals,
                   uspaceLocals>>

\* while written < len { let result = copy_bytes(.., len - written)?; .. } Ok(written)
\* copy_bytes(&infd, &outfd, uspace, len - written)
range_remaining_len(l, w) == l

range_remaining(l, w) == l - w

range_loop ==
    /\ pc = "range_loop"
    /\ \/ /\ written < rlen
          /\ nbytes' = range_remaining(rlen, written)
          /\ pc' = "copy_bytes"
          /\ UNCHANGED <<dst, res, cursors, copyLocals, sparseLocals, rangeLocals,
                         result, uspaceLocals>>
       \/ /\ ~(written < rlen)
          /\ op = "range"
          /\ Return(Ok(written))
          /\ UNCHANGED dst
       \/ /\ ~(written < rlen)
          /\ op = "copy" /\ is_sparse
          /\ pc' = "sparse_next"
          /\ ClearRange
          /\ UNCHANGED <<dst, res, cursors, copyLocals, sparseLocals, bytesLocals,
                         uspaceLocals>>
       \/ /\ ~(written < rlen)
          /\ op = "copy" /\ ~is_sparse
          /\ total' = written
          /\ pc' = "copy_perm"
          /\ ClearRange
          /\ UNCHANGED <<dst, res, cursors, is_sparse, uspace, sparseLocals, bytesLocals,
                         uspaceLocals>>
    /\ UNCHANGED <<src, cfr, thr, op, history>>

\* written += result
range_add ==
    /\ pc = "range_add"
    /\ written' = written + result
    /\ result' = 0
    /\ pc' = "range_loop"
    /\ UNCHANGED <<files, cfr, thr, op, res, cursors, copyLocals, sparseLocals, rlen,
                   nbytes, uspaceLocals, history>>

\* ------------------------------------------------------------- copy_bytes
\* HAS_COPY_FILE_RANGE.with(|cfr| { loop { .. } })
copy_bytes ==
    /\ pc = "copy_bytes"
    /\ cfr' = [cfr EXCEPT ![thr] = cfr_with(@)]
    /\ pc' = "bytes_loop"
    /\ UNCHANGED <<files, thr, op, res, cursors, copyLocals, sparseLocals, rangeLocals,
                   bytesLocals, uspaceLocals, history>>

\* if uspace || !*cfr.borrow() { return copy_bytes_uspace(..) } else { copy_bytes_kernel(..) }
bytes_loop ==
    /\ pc = "bytes_loop"
    /\ IF use_uspace(uspace, cfr[thr])
       THEN /\ uwritten' = 0
            /\ pc' = "uspace_loop"
       ELSE /\ pc' = "kernel"
            /\ UNCHANGED uwritten
    /\ UNCHANGED <<files, cfr, thr, op, res, cursors, copyLocals, sparseLocals,
                   rangeLocals, bytesLocals, next, buf, history>>

\* What copy_file_range(fd_in, NULL, fd_out, NULL, n, 0) can report for a
\* source with avail bytes after the cursor: a short count, or 0 at the end.
KernelCounts(n, avail) == IF avail <= 0 THEN {0} ELSE 1..Min(n, avail)

\* let result = copy_bytes_kernel(reader, writer, nbytes); and the match on it
copy_bytes_kernel ==
    /\ pc = "kernel"
    /\ kTried' = TRUE
    /\ \/ \E k \in KernelCounts(nbytes, src.size - fdin) :
            /\ dst' = WriteAt(dst, fdout, ReadAt(src, fdin, k))
            /\ fdin' = fdin + k
            /\ fdout' = fdout + k
            /\ wr' = wr \cup (fdout..(fdout + k - 1))
            /\ kMoved' = (kMoved \/ k > 0)
            /\ result' = k
            /\ nbytes' = 0
            /\ pc' = "range_add"
            /\ UNCHANGED <<cfr, unsup, res, copyLocals, sparseLocals, rangeLocals,
                           uspaceLocals>>
       \/ \E e \in {ENOSYS, EPERM, EIO} :
            /\ unsup' = [unsup EXCEPT ![thr] = @ \/ e \in {ENOSYS, EPERM}]
            /\ IF is_unsupported(e)
               THEN /\ cfr' = flag_down(cfr, thr)
                    /\ pc' = "bytes_loop"
                    /\ UNCHANGED <<res, cursors, copyLocals, sparseLocals, rangeLocals,
                                   bytesLocals, uspaceLocals>>
               ELSE /\ Return(Err(e))
                    /\ UNCHANGED cfr
            /\ UNCHANGED <<dst, wr, kMoved>>
    /\ UNCHANGED <<src, thr, op, last, ncopies, intr>>

\* ------------------------------------------------------ copy_bytes_uspace
\* while written < nbytes { let next = cmp::min(nbytes - written, BLKSIZE); .. }
\* Ok(written as u64)
uspace_loop ==
    /\ pc = "uspace_loop"
    /\ IF uwritten < nbytes
       THEN /\ next' = uspace_next(nbytes, uwritten)
            /\ pc' = "uspace_read"
            /\ UNCHANGED <<bytesLocals, uwritten, buf>>
       ELSE /\ result' = uwritten
            /\ nbytes' = 0
            /\ ClearUspace
            /\ pc' = "range_add"
    /\ UNCHANGED <<files, cfr, thr, op, res, cursors, copyLocals, sparseLocals,
                   rangeLocals, history>>

\* match reader.read(&mut buf[..next])
\* Err(ref e) if e.kind() == ErrorKind::Interrupted
is_interrupted_never(e) == FALSE

is_interrupted(e) == e = Interrupted

uspace_read ==
    /\ pc = "uspace_read"
    /\ \/ \E l \in 1..Min(next, src.size - fdin) :          \* Ok(len)
            /\ buf' = ReadAt(src, fdin, l)
            /\ fdin' = fdin + l
            /\ pc' = "uspace_write"
            /\ UNCHANGED <<res, fdout, copyLocals, sparseLocals, rangeLocals,
                           bytesLocals, uwritten, next, intr>>
       \/ /\ src.size - fdin <= 0                            \* Ok(0)
          /\ Return(Err(InvalidData))
          /\ UNCHANGED intr
       \/ \E e \in {Interrupted, EIO} :
            IF is_interrupted(e)
            THEN /\ intr < MaxIntr                           \* continue
                 /\ intr' = intr + 1
                 /\ pc' = "uspace_loop"
                 /\ UNCHANGED <<res, cursors, copyLocals, sparseLocals, rangeLocals,
                                bytesLocals, uspaceLocals>>
            ELSE /\ Return(Err(e))                           \* Err(e)
                 /\ UNCHANGED intr
    /\ UNCHANGED <<files, cfr, thr, op, wr, kTried, kMoved, unsup, last, ncopies>>

\* writer.write_all(&buf[..len])?; written += len;
uspace_write ==
    /\ pc = "uspace_write"
    /\ \/ /\ dst' = WriteAt(dst, fdout, buf)
          /\ fdout' = fdout + Len(buf)
          /\ wr' = wr \cup (fdout..(fdout + Len(buf) - 1))
          /\ uwritten' = uspace_written(uwritten, Len(buf), next)
          /\ pc' = "uspace_loop"
          /\ UNCHANGED <<res, fdin, copyLocals, sparseLocals, rangeLocals, bytesLocals,
                         next, buf>>
       \/ \E j \in 0..(Len(buf) - 1) :       \* a write fails after j bytes
            /\ dst' = WriteAt(dst, fdout, SubSeq(buf, 1, j))
            /\ wr' = wr \cup (fdout..(fdout + j - 1))
            /\ Return(Err(EIO))
    /\ UNCHANGED <<src, cfr, thr, op, kTried, kMoved, unsup, last, ncopies, intr>>

\* ---------------------------------------------------------- specification
\* The threads are alike: the first invocation runs on the first of them.
Callers == IF ncopies = 0 THEN {"t1"} ELSE Threads

\* The destinations of a copy: another path, or the path the copy that has
\* just succeeded wrote to.
CopyDsts == IF op = "copy" /\ res.ok THEN {dst} \cup FreshDsts ELSE FreshDsts

\* copy_range reads no device identifier: its destinations are on one device.
RangeDsts == {SparseDst(DevA)}

\* The lengths a direct copy_range is asked for: one byte less than the
\* source holds, all of it, and one byte more.
RangeLens == {n \in 0..MaxLen : n >= src.size - 1 /\ n <= src.size + 1}

Next ==
    \/ \E t \in Callers, d \in CopyDsts : copy_call(t, d)
    \/ \E t \in Callers, d \in RangeDsts, usp \in BOOLEAN,
          n \in RangeLens : range_call(t, d, usp, n)
    \/ copy_is_file
    \/ copy_open
    \/ copy_parms
    \/ copy_total
    \/ copy_perm
    \/ sparse_loop
    \/ sparse_next
    \/ range_loop
    \/ range_add
    \/ copy_bytes
    \/ bytes_loop
    \/ copy_bytes_kernel
    \/ uspace_loop
    \/ uspace_read
    \/ uspace_write

Spec == Init /\ [][Next]_vars

\* A small world for the termination of copy_range: a one-byte file without
\* holes, and a file that is one hole of one block.
\* Sources long enough for is_sparse to be true with two data segments
\* apart, as the file of test_sparse has, and a source of one byte.
WalkSources ==
    {SourceFile(WalkBlocks * StBlksize, {1, 3}),
     SourceFile(WalkBlocks * StBlksize, {0, WalkBlocks - 1}),
     SourceFile(1, {0})}

WalkInit == src \in WalkSources /\ InitRest

WalkSpec == WalkInit /\ [][Next]_vars /\ WF_vars(Next)

LiveSources == {SourceFile(1, {0}), SourceFile(StBlksize, {})}

LiveInit == Init /\ src \in LiveSources

\* Every step the code can take is eventually taken: the calls block, they
\* do not stop.
LiveSpec == LiveInit /\ [][Next]_vars /\ WF_vars(Next)

\* ------------------------------------------------------------- properties
Finished == pc = "idle" /\ ncopies > 0
CopyOk == Finished /\ op = "copy" /\ res.ok
SameContent == dst.size = src.size /\ dst.data = src.data
InRange == pc \in {"range_loop", "range_add", "copy_bytes", "bytes_loop", "kernel",
                   "uspace_loop", "uspace_read", "uspace_write"}

\* C1: a successful copy of a regular file without holes leaves the
\* destination with the length of the source and the same byte at every
\* offset, and returns the length of the source.
C1_HoleFreeCopyIdentical ==
    (CopyOk /\ ~HasHoles(src)) => (SameContent /\ res.val = src.size)

C1_Witness ==
    /\ CopyOk /\ ~HasHoles(src) /\ src.size = MaxLen
    /\ wr = 0..(MaxLen - 1) /\ dst.data = src.data

\* C2: a successful copy of a file with holes, whatever its layout, leaves
\* the destination with the length of the source and byte-identical content
\* (a hole reading as zero), and returns the length of the source.
C2_SparseCopyIdentical ==
    (CopyOk /\ HasHoles(src)) => (SameContent /\ res.val = src.size)

C2_Witness ==
    /\ CopyOk /\ HasHoles(src) /\ is_sparse_of(src) /\ src.alloc = {1}
    /\ src.size = MaxLen /\ dst.data = src.data /\ res.val = MaxLen

\* C3: during and after the copy of a source with holes no destination
\* offset that lies in a hole of the source is written, and after it every
\* data offset holds the byte of the source.
C3_HolesNeverWritten ==
    (op = "copy" /\ ncopies > 0 /\ HasHoles(src)) =>
        /\ wr \cap HoleOffsets(src) = {}
        /\ CopyOk => \A o \in 0..(src.size - 1) :
                        IsData(src, o) => dst.data[o + 1] = src.data[o + 1]

\* C4: the copy of a source that is one hole of size N gives a destination
\* of length N and transfers no data, on neither path.
C4_AllHoleNoTransfer ==
    (op = "copy" /\ ncopies > 0 /\ src.kind = "file" /\ src.alloc = {}) =>
        /\ wr = {} /\ ~kTried /\ pc \notin {"kernel", "uspace_read", "uspace_write"}
        /\ CopyOk => dst.size = src.size

\* C5: while source and destination are on different devices no transfer
\* of the copy goes through copy_file_range, whatever the flag says: every
\* byte is written by the fallback path, and the flag is left as it was.
C5_XmountNeverKernel ==
    [][(op = "copy" /\ pc # "idle" /\ src.dev # dst.dev) =>
          /\ pc' # "kernel" /\ ~kTried'
          /\ cfr' = cfr
          /\ (wr' # wr => pc = "uspace_write")]_vars

C5_Witness ==
    /\ CopyOk /\ src.dev # dst.dev /\ cfr[thr] /\ ~kTried
    /\ wr = 0..(MaxLen - 1) /\ dst.data = src.data

\* C6: the flag of every thread starts true, and once it is false it is
\* never true again.
C6_FlagMonotone ==
    /\ \A t \in Threads : cfr[t]
    /\ [][\A t \in Threads : ~cfr[t] => ~cfr'[t]]_vars

C6_Witness ==
    /\ ~cfr[thr] /\ ncopies = MaxCopies /\ last.set /\ last.k
    /\ pc = "bytes_loop" /\ ~kTried

\* C7: once a copy_file_range of a thread has failed with ENOSYS or EPERM,
\* that thread never calls copy_file_range again, in this or any later
\* invocation.
C7_NoKernelAfterUnsupported == pc = "kernel" => ~unsup[thr]

C7_Witness ==
    /\ unsup[thr] /\ ncopies = MaxCopies /\ ~kTried /\ ~uspace
    /\ pc = "uspace_write" /\ src.dev = dst.dev

\* C8: when from names no existing regular file, copy returns the input
\* error at once: the destination is neither created nor truncated, nothing
\* is transferred, no permission is set and the flag is left as it was.
C8_NotAFileNoWork ==
    [][(op = "copy" /\ pc # "idle" /\ src.kind # "file") =>
          /\ pc' = "idle" /\ res' = Err(InvalidInput)
          /\ dst' = dst /\ cfr' = cfr /\ wr' = {} /\ ~kTried']_vars

C8_Witness ==
    /\ Finished /\ op = "copy" /\ src.kind = "missing" /\ res = Err(InvalidInput)
    /\ dst.kind = "missing" /\ wr = {}

\* C9: every call of copy_range returns: from the head of its loop the
\* invocation reaches the return to its caller (with the bytes transferred
\* or with an error), whatever the transfers report.
C9_CopyRangeTerminates == (pc = "range_loop") ~> ~InRange

\* C10: two successful copies of the same source give the same destination
\* content and the same return value, also when the first one downgraded
\* the flag and the second one took the other path.
C10_CopyTwiceSame ==
    (CopyOk /\ last.set) => (dst.data = last.data /\ res.val = last.ret)

C10_Witness ==
    /\ CopyOk /\ last.set /\ last.k /\ ~cfr[thr] /\ src.dev = dst.dev
    /\ ~kTried /\ wr = 0..(MaxLen - 1) /\ src.size = MaxLen

\* C11: the flag is kept per thread: a step changes no flag but that of the
\* thread that runs, so a thread whose own copy_file_range has not failed
\* still calls it when another thread's flag is down.
C11_FlagPerThread ==
    [][/\ \A t \in Threads : t # thr => cfr'[t] = cfr[t]
       /\ (pc = "bytes_loop" /\ ~uspace /\ ~unsup[thr]) => pc' = "kernel"]_vars

C11_Witness ==
    /\ \E t \in Threads : t # thr /\ unsup[t] /\ ~cfr[t]
    /\ cfr[thr] /\ ~unsup[thr] /\ pc = "kernel"

\* C12: copy sets the destination's permissions as its last step: when it
\* does, every byte of the source is in the destination and copy returns Ok
\* in that step; a copy that returns Ok leaves the source's mode on the
\* destination; no other step of a copy, so no failing copy, changes the mode.
C12_PermissionsLast ==
    /\ [](pc = "copy_perm" => SameContent)
    /\ [](CopyOk => dst.mode = src.mode)
    /\ [][(pc # "idle" /\ dst'.mode # dst.mode)
            => (pc = "copy_perm" /\ pc' = "idle" /\ res'.ok
                /\ dst'.mode = src.mode /\ dst'.data = dst.data)]_vars

C12_Witness ==
    /\ CopyOk /\ src.size = MaxLen /\ wr # {}
    /\ dst.mode = SrcMode /\ dst.dev = DevB

UspacePcs == {"uspace_loop", "uspace_read", "uspace_write"}

\* C13: one call of copy_bytes calls copy_file_range at most once after it
\* has failed: the call is made with the thread's flag true and uspace false;
\* when it fails with ENOSYS or EPERM the flag goes false and the same request
\* (byte count, both cursors, destination untouched) goes to copy_bytes_uspace,
\* whose result copy_bytes returns without another copy_file_range.
C13_KernelThenFallbackOnce ==
    /\ [](pc = "kernel" => (cfr[thr] /\ ~uspace))
    /\ [][/\ pc = "kernel"
             => \/ pc' \in {"range_add", "idle"}
                \/ /\ pc' = "bytes_loop" /\ ~cfr'[thr]
                   /\ nbytes' = nbytes /\ cursors' = cursors /\ dst' = dst
          /\ (pc = "bytes_loop" /\ ~cfr[thr])
             => /\ pc' = "uspace_loop"
                /\ nbytes' = nbytes /\ cursors' = cursors /\ dst' = dst
          /\ pc \in UspacePcs => pc' \in UspacePcs \cup {"range_add", "idle"}
          /\ (pc = "uspace_loop" /\ pc' = "range_add") => result' = uwritten]_vars

C13_Witness ==
    /\ pc = "uspace_write" /\ ~uspace /\ kTried /\ ~kMoved
    /\ unsup[thr] /\ ~cfr[thr] /\ wr = {} /\ nbytes = MaxLen

\* C14: when copy_file_range fails with another error than ENOSYS and EPERM,
\* the call ends there with that error: the flag, the destination and the
\* bytes written are unchanged, copy_bytes_uspace is not tried, and the error
\* is what copy_range, copy_sparse and copy return; copy_bytes goes on to its
\* next pass only after ENOSYS or EPERM.
C14_OtherErrorsPropagate ==
    [][pc = "kernel"
         => /\ pc' = "idle"
               => /\ res' = Err(EIO) /\ ~unsup'[thr]
                  /\ cfr' = cfr /\ dst' = dst /\ wr' = wr
            /\ pc' = "bytes_loop" => (unsup'[thr] /\ ~cfr'[thr])
            /\ pc' = "range_add" => (cfr' = cfr /\ unsup' = unsup)]_vars

C14_Witness ==
    /\ Finished /\ op = "copy" /\ res = Err(EIO)
    /\ kTried /\ ~kMoved /\ wr = {} /\ ~unsup[thr] /\ cfr[thr]
    /\ is_sparse_of(src) /\ src.alloc # {}

\* The cursor a running copy_range started from: the data offset copy_sparse
\* has sought to, or the start of the files.
Base == IF op = "copy" /\ is_sparse THEN next_data ELSE 0

\* C15: copy_bytes_uspace(n) never returns Ok with fewer than n bytes moved:
\* its count never passes n and is the number of bytes it has moved, it
\* returns Ok only with the count n, however short the reads were, and at the
\* end of the source with bytes still to copy its read cannot go on: the call
\* ends there in an error, InvalidData when the read returned 0.
C15_UspaceAllOrError ==
    /\ [](pc \in UspacePcs => uwritten <= nbytes)
    /\ [](pc = "uspace_write" => uwritten + Len(buf) <= nbytes)
    /\ [](pc = "uspace_loop" => (fdin = fdout /\ fdout = Base + written + uwritten))
    /\ [](pc = "uspace_read" => uwritten < nbytes)
    /\ [][/\ (pc = "uspace_loop" /\ pc' = "range_add")
             => (result' = nbytes /\ uwritten = nbytes)
          /\ (pc = "uspace_read" /\ fdin >= src.size)
             => /\ pc' \in {"idle", "uspace_loop"}
                /\ pc' = "idle" => ~res'.ok
                /\ pc' = "uspace_loop" => uwritten' = uwritten
          /\ (pc = "uspace_read" /\ pc' = "idle")
             => /\ res' \in {Err(InvalidData), Err(EIO)}
                /\ res' = Err(InvalidData) => fdin >= src.size]_vars

C15_Witness ==
    /\ Finished /\ op = "range" /\ res = Err(InvalidData)
    /\ ~kTried /\ src.size = MaxLen - 1 /\ wr = 0..(src.size - 1)

\* C16: a read that fails with Interrupted is never what copy_bytes_uspace
\* returns: the step leaves the count, the destination and both cursors as
\* they were and goes back to the loop, which reads again, and every read
\* asks for min(nbytes - written, BLKSIZE), so the retry asks for the length
\* the interrupted read asked for.
C16_InterruptedRetried ==
    /\ [](res # Err(Interrupted))
    /\ [](pc = "uspace_read" => (next = Min(nbytes - uwritten, BLKSIZE) /\ next > 0))
    /\ [][/\ (pc # "idle" /\ intr' # intr)
             => /\ pc = "uspace_read" /\ pc' = "uspace_loop"
                /\ uwritten' = uwritten /\ nbytes' = nbytes /\ next' = next
                /\ dst' = dst /\ cursors' = cursors /\ wr' = wr
          /\ (pc = "uspace_loop" /\ uwritten < nbytes)
             => (pc' = "uspace_read" /\ UNCHANGED <<uwritten, nbytes, dst, cursors>>)]_vars

C16_Witness ==
    /\ CopyOk /\ intr > 0 /\ SameContent /\ src.size = MaxLen
    /\ wr = 0..(MaxLen - 1)

Walking == op = "copy" /\ is_sparse /\ (pc \in {"sparse_loop", "sparse_next"} \/ InRange)

\* C17: copy_sparse gives the destination the source's length before a byte
\* is written; each pass finds a data segment at or after pos with only holes
\* before it, puts both cursors on its start and copies its length, nothing
\* having been written at or after pos; pos then moves to the segment's end,
\* strictly forward; the loop is left with pos = len, and it is always left.
C17_SparseWalk ==
    /\ [](Walking => (dst.size = src.size /\ len = src.size /\ pos <= len))
    /\ [][/\ (pc = "copy_total" /\ pc' = "sparse_loop")
             => (dst'.size = src.size /\ wr' = {} /\ pos' = 0)
          /\ (pc = "sparse_loop" /\ pc' = "range_loop")
             => /\ pos <= next_data' /\ next_data' <= next_hole' /\ pos < next_hole'
                /\ fdin' = next_data' /\ fdout' = next_data'
                /\ rlen' = next_hole' - next_data'
                /\ \A o \in pos..(next_data' - 1) : ~IsData(src, o)
                /\ \A o \in next_data'..(next_hole' - 1) : IsData(src, o)
                /\ wr \subseteq 0..(pos - 1)
          /\ (pc = "range_loop" /\ pc' = "sparse_next")
             => (written = next_hole - next_data /\ fdin = next_hole /\ fdout = next_hole)
          /\ pc = "sparse_next" => (pos' = next_hole /\ pos' > pos)
          /\ (pc = "sparse_loop" /\ pc' = "copy_perm") => pos = len]_vars
    /\ (pc = "sparse_loop") ~> (pc \in {"copy_perm", "idle"})

\* The second data segment is about to be copied, the first one is written.
C17_Witness ==
    /\ Walking /\ pc = "range_loop" /\ written = 0
    /\ src.alloc = {1, 3} /\ next_data = 3 * StBlksize
    /\ wr = (StBlksize..(2 * StBlksize - 1))

\* C18: when copy_parms has returned, is_sparse is true exactly when the
\* source has at least one hole.
C18_SparseIffHoles == pc = "copy_total" => (is_sparse <=> HasHoles(src))

RangeDone == pc = "range_loop" /\ ~(written < rlen)

\* C19: a copy_range(len) that returns Ok has moved both cursors len bytes
\* on from where they were and returns len; called on its own on an all-hole
\* destination, it has written the offsets 0..len-1 and no other at any
\* time, these hold the source's bytes, the length and mode of the
\* destination are as before, every byte after them is still zero and every
\* block they do not touch is still a hole.
C19_CopyRangeFrame ==
    /\ [](RangeDone => (written = rlen /\ fdin = Base + rlen /\ fdout = Base + rlen))
    /\ []((InRange /\ op = "range")
            => /\ wr \subseteq 0..(rlen - 1)
               /\ dst.size = MaxLen /\ dst.mode = OldMode
               /\ dst.alloc = {BlockOf(o) : o \in wr}
               /\ \A o \in (0..(MaxLen - 1)) \ wr : dst.data[o + 1] = 0)
    /\ []((RangeDone /\ op = "range")
            => /\ wr = 0..(rlen - 1)
               /\ \A o \in wr : dst.data[o + 1] = src.data[o + 1])
    /\ [][/\ (pc = "range_loop" /\ op = "range" /\ pc' = "idle") => res' = Ok(rlen)
          /\ (pc = "range_loop" /\ pc' = "copy_perm") => total' = rlen]_vars

C19_Witness ==
    /\ RangeDone /\ op = "range" /\ rlen = MaxLen - 1 /\ src.size = MaxLen
    /\ kTried /\ unsup[thr] /\ wr = 0..(rlen - 1) /\ HasHoles(src)

\* d is the first data offset of f at or after p, or its length when there
\* is none, and h the first hole offset at or after d, or its length.
SegmentsAt(f, p, d, h) ==
    /\ p <= d /\ d <= h /\ h <= f.size
    /\ \A o \in p..(d - 1) : ~IsData(f, o)
    /\ d < f.size => IsData(f, d)
    /\ \A o \in d..(h - 1) : IsData(f, o)
    /\ h < f.size => ~IsData(f, h)

\* C20: for the source copy has opened and every position below its length
\* next_sparse_segments
\* returns (d, h) with pos <= d <= h <= length, d the first data offset at or
\* after pos or the length when lseek reports ENXIO, h the first hole offset
\* at or after d or the length; the walk of copy_sparse takes these values;
\* ENXIO is never an error of a call, and a seek that fails otherwise ends
\* the call with that error, the destination untouched by the step.
C20_SegmentBounds ==
    /\ [](pc = "copy_parms"
            => \A p \in 0..(src.size - 1) :
                  LET seg == next_sparse_segments(src, p)
                  IN SegmentsAt(src, p, seg[1], seg[2]))
    /\ [](res.err # ENXIO)
    /\ [][/\ (pc = "sparse_loop" /\ pc' = "range_loop")
             => (pos < len /\ SegmentsAt(src, pos, next_data', next_hole'))
          /\ (pc = "sparse_loop" /\ pc' = "idle")
             => (pos < len /\ res' = Err(EIO) /\ dst' = dst)]_vars

\* The probe has found no data after the last segment: both values are the
\* length of the source.
C20_Witness ==
    /\ Walking /\ pc = "range_loop"
    /\ 0 < pos /\ pos < len /\ src.alloc # {}
    /\ next_data = src.size /\ next_hole = src.size

====
